---- MODULE Spec2Model ----
(***************************************************************************)
(* Model of backend/main.py: the resume store, the experience estimator    *)
(* (date-range extraction, range merging, fallback tiers), the degree      *)
(* classifier and the weighted scoring of apply_filters_and_scoring.       *)
(*                                                                         *)
(* Numbers.  Python floats are modelled by exact rationals.  A value with  *)
(* two decimals (years, a rounded percentage, a reported score, min_score) *)
(* is the integer number of hundredths; the unrounded composite score is a *)
(* fraction <<num, den>> with den > 0.  Optional values are <<>> (None)    *)
(* or <<v>>.  Dates are day numbers (days since 1970-01-01).               *)
(***************************************************************************)
EXTENDS Integers, Sequences, FiniteSets, TLC

VARIABLES
    parsed_resumes,   \* the in-memory store: candidate id -> parsed resume
    next_id,          \* number of candidate ids handed out so far (uuid4 is fresh)
    response,         \* the response of the handler that ran last, <<>> when consumed
    now,              \* the day datetime.now() falls on
    text,             \* estimator input: the resume text as a sequence of tokens
    est,              \* estimator output: <<>> before the call, <<hundredths>> after
    ranges,           \* merge_ranges input: a sequence of <<start, end>>
    merged            \* merge_ranges output: <<>> before the call, <<list>> after

vars == <<parsed_resumes, next_id, response, now, text, est, ranges, merged>>

----------------------------------------------------------------------------
(* Arithmetic helpers *)

Min(a, b) == IF a <= b THEN a ELSE b

Max(a, b) == IF a >= b THEN a ELSE b

\* round(n/d) to the nearest integer, ties to even (Python's round), d > 0
Round(n, d) ==
    LET q == (2 * n + d) \div (2 * d)
        tie == ((2 * n + d) % (2 * d)) = 0
    IN IF tie /\ (q % 2 = 1) THEN q - 1 ELSE q

----------------------------------------------------------------------------
(* Dates *)

\* datetime(y, m, d) as a day number; <<>> when the constructor raises
\* (year 0 is below datetime.MINYEAR)
datetime(y, m, d) ==
    IF y < 1 THEN <<>>
    ELSE LET yy  == IF m <= 2 THEN y - 1 ELSE y
             era == yy \div 400
             yoe == yy - era * 400
             mp  == (m + 9) % 12
             doy == (153 * mp + 2) \div 5 + d - 1
             doe == yoe * 365 + yoe \div 4 - yoe \div 100 + doy
         IN <<era * 146097 + doe - 719468>>

\* max(0.0, (end - start).days / 365.25), kept as the number of days: the
\* division by 365.25 is carried out once, on the sum (CappedYears)
diff_years(start, end) == Max(0, end - start)

----------------------------------------------------------------------------
(* merge_ranges *)

\* sorted(ranges, key=lambda x: x[0]): stable insertion of r into a sorted list
RECURSIVE InsertByStart(_, _)
InsertByStart(sorted, r) ==
    IF sorted = <<>> THEN <<r>>
    ELSE IF r[1] < Head(sorted)[1] THEN <<r>> \o sorted
    ELSE <<Head(sorted)>> \o InsertByStart(Tail(sorted), r)

RECURSIVE SortByStart(_)
SortByStart(rs) ==
    IF rs = <<>> THEN <<>>
    ELSE InsertByStart(SortByStart(SubSeq(rs, 1, Len(rs) - 1)), rs[Len(rs)])

MergeStep_end_overwritten(acc, cur) ==
    LET prev == acc[Len(acc)]
    IN IF cur[1] <= prev[2]
       THEN [acc EXCEPT ![Len(acc)] = <<prev[1], cur[2]>>]
       ELSE Append(acc, cur)

\* one step of the loop body of merge_ranges
MergeStep(acc, cur) ==
    LET prev == acc[Len(acc)]
    IN IF cur[1] <= prev[2]
       THEN [acc EXCEPT ![Len(acc)] = <<prev[1], Max(prev[2], cur[2])>>]
       ELSE Append(acc, cur)

RECURSIVE MergeLoop(_, _)
MergeLoop(acc, rest) ==
    IF rest = <<>> THEN acc
    ELSE MergeLoop(MergeStep(acc, Head(rest)), Tail(rest))

\* a merge that compares each range with the range before it in the sorted
\* input instead of with the last merged range
RECURSIVE MergeLoopAgainstInput(_, _, _)
MergeLoopAgainstInput(acc, before, rest) ==
    IF rest = <<>> THEN acc
    ELSE LET cur == Head(rest)
             last == acc[Len(acc)]
         IN MergeLoopAgainstInput(
                IF cur[1] <= before[2]
                THEN [acc EXCEPT ![Len(acc)] = <<last[1], Max(last[2], cur[2])>>]
                ELSE Append(acc, cur),
                cur, Tail(rest))

merge_ranges_against_input(rs) ==
    IF rs = <<>> THEN <<>>
    ELSE LET ranges_sorted == SortByStart(rs)
         IN MergeLoopAgainstInput(<<Head(ranges_sorted)>>, Head(ranges_sorted),
                                  Tail(ranges_sorted))

merge_ranges(rs) ==
    IF rs = <<>> THEN <<>>
    ELSE LET ranges_sorted == SortByStart(rs)
         IN MergeLoop(<<Head(ranges_sorted)>>, Tail(ranges_sorted))

\* sum of the day counts of a list of ranges
RECURSIVE TotalDays(_)
TotalDays(rs) ==
    IF rs = <<>> THEN 0 ELSE diff_years(Head(rs)[1], Head(rs)[2]) + TotalDays(Tail(rs))

\* round(min(total_years, 50.0), 2) with total_years = days / 365.25, in hundredths
CappedYears(days) ==
    IF 4 * days > 50 * 1461 THEN 5000 ELSE Round(400 * days, 1461)

----------------------------------------------------------------------------
(* Resume text.  A text is a sequence of whitespace-separated tokens: words, *)
(* 4-digit years, the dash and the sentence-ending full stop.                *)

WordTokens == {"Feb", "Foo", "Present", "experience"}

YearTokens == {"2018", "2021", "2022", "0000"}

\* int(yr)
YearVal(t) ==
    IF t = "2018" THEN 2018 ELSE IF t = "2021" THEN 2021 ELSE IF t = "2022" THEN 2022 ELSE 0

\* number of letters of a word token
WordLen(t) == IF t = "experience" THEN 10 ELSE IF t = "Present" THEN 7 ELSE 3

\* MONTH_MAP.get(mon[:3].lower()) or MONTH_MAP.get(mon.lower()); 0 for None.
\* Of the word tokens only "Feb" is a month name.
MONTH_MAP(t) == IF t = "Feb" THEN 2 ELSE 0

\* end_raw.lower() in ("present", "now")
IsPresent(t) == t = "Present"

\* parse_month_year on "<word> <year>": an unknown month falls back to 1
\* (month or 1); None (<<>>) only when datetime() raises
parse_month_year(w, y) ==
    LET month == MONTH_MAP(w)
    IN datetime(YearVal(y), IF month = 0 THEN 1 ELSE month, 1)

Tok(t, i) == IF i >= 1 /\ i <= Len(t) THEN t[i] ELSE ""

\* pattern_month_range matched at token i: number of tokens of the match, 0
\* for no match.  [A-Za-z]{3,9} is not anchored on the left, so any word of 3
\* or more letters can start the match (by its last 9 letters); the end word
\* starts right after the separator and must be whole, so at most 9 letters.
\* The alternative Present is tried before "<word> <year>".
MonthMatchLen(t, i) ==
    IF Tok(t, i) \in WordTokens /\ Tok(t, i + 1) \in YearTokens /\ Tok(t, i + 2) = "-"
    THEN IF IsPresent(Tok(t, i + 3)) THEN 4
         ELSE IF Tok(t, i + 3) \in WordTokens /\ WordLen(Tok(t, i + 3)) <= 9
                 /\ Tok(t, i + 4) \in YearTokens THEN 5
         ELSE 0
    ELSE 0

\* the body of the loop over pattern_month_range: the range of one match, or none
MonthRange(t, i, n, today) ==
    LET s == parse_month_year(t[i], t[i + 1])
        e == IF n = 4 THEN <<today>> ELSE parse_month_year(t[i + 3], t[i + 4])
    IN IF s # <<>> /\ e # <<>> /\ e[1] >= s[1] THEN << <<s[1], e[1]>> >> ELSE <<>>

\* finditer: leftmost, non-overlapping matches
RECURSIVE MonthRanges(_, _, _)
MonthRanges(t, i, today) ==
    IF i > Len(t) THEN <<>>
    ELSE LET n == MonthMatchLen(t, i)
         IN IF n = 0 THEN MonthRanges(t, i + 1, today)
            ELSE MonthRange(t, i, n, today) \o MonthRanges(t, i + n, today)

\* pattern_year_range matched at token i
YearMatchLen(t, i) ==
    IF Tok(t, i) \in YearTokens /\ Tok(t, i + 1) = "-"
       /\ (IsPresent(Tok(t, i + 2)) \/ Tok(t, i + 2) \in YearTokens)
    THEN 3 ELSE 0

\* the body of the loop over pattern_year_range
YearRange(t, i, today) ==
    LET s == datetime(YearVal(t[i]), 1, 1)
        e == IF IsPresent(t[i + 2]) THEN <<today>> ELSE datetime(YearVal(t[i + 2]), 12, 31)
    IN IF s # <<>> /\ e # <<>> /\ e[1] >= s[1] THEN << <<s[1], e[1]>> >> ELSE <<>>

RECURSIVE YearRanges(_, _, _)
YearRanges(t, i, today) ==
    IF i > Len(t) THEN <<>>
    ELSE IF YearMatchLen(t, i) = 0 THEN YearRanges(t, i + 1, today)
    ELSE YearRange(t, i, today) \o YearRanges(t, i + 3, today)

\* the list `ranges` built by the two loops of estimate_experience_years
ExtractRanges(t, today) == MonthRanges(t, 1, today) \o YearRanges(t, 1, today)

\* [sent for sent in doc.sents if "experience" in sent.text.lower()]: the
\* sentences are the runs of tokens between full stops
RECURSIVE ExperienceSentences(_, _, _)
ExperienceSentences(t, i, seen) ==
    IF i > Len(t) THEN (IF seen THEN 1 ELSE 0)
    ELSE IF t[i] = "." THEN (IF seen THEN 1 ELSE 0) + ExperienceSentences(t, i + 1, FALSE)
    ELSE ExperienceSentences(t, i + 1, seen \/ t[i] = "experience")

\* re.findall(r"\b(19|20)\d{2}\b", text): with one capturing group findall
\* returns the group, so every year contributes its first two digits
RECURSIVE years_found(_)
years_found(t) ==
    IF t = <<>> THEN <<>>
    ELSE (IF Head(t) \in YearTokens /\ YearVal(Head(t)) \div 100 \in {19, 20}
          THEN <<YearVal(Head(t)) \div 100>> ELSE <<>>) \o years_found(Tail(t))

SeqMax(s) == CHOOSE x \in {s[i] : i \in 1..Len(s)} : \A j \in 1..Len(s) : s[j] <= x

SeqMin(s) == CHOOSE x \in {s[i] : i \in 1..Len(s)} : \A j \in 1..Len(s) : s[j] >= x

estimate_sentences_first(t, today) ==
    LET rs == ExtractRanges(t, today)
        n  == ExperienceSentences(t, 1, FALSE)
        ys == years_found(t)
    IN IF n > 0 THEN 100 * Min(n, 40)
       ELSE IF rs # <<>> THEN CappedYears(TotalDays(merge_ranges(rs)))
       ELSE IF Len(ys) >= 2 THEN 100 * Min(SeqMax(ys) - SeqMin(ys), 50)
       ELSE 0

\* estimate_experience_years, in hundredths of a year
estimate_experience_years(t, today) ==
    LET rs == ExtractRanges(t, today)
        n  == ExperienceSentences(t, 1, FALSE)
        ys == years_found(t)
    IN IF rs # <<>> THEN CappedYears(TotalDays(merge_ranges(rs)))
       ELSE IF n > 0 THEN 100 * Min(n, 40)
       ELSE IF Len(ys) >= 2 THEN 100 * Min(SeqMax(ys) - SeqMin(ys), 50)
       ELSE 0

----------------------------------------------------------------------------
(* Degree classifier *)

\* the keys of DEGREE_LEVELS in dict order, which is also the rank order
\* used by apply_filters_and_scoring
DEGREE_LEVELS == <<"highschool", "diploma", "bachelor", "master", "phd">>

\* list.index
DegreeIndex(level) == CHOOSE i \in 1..Len(DEGREE_LEVELS) : DEGREE_LEVELS[i] = level

\* detect_degree_level: edu is the set of levels one of whose keywords occurs
\* (word-bounded) in the joined education snippets; the first level in dict
\* order wins.  <<>> is None.
detect_degree_level(edu) ==
    IF \E i \in 1..Len(DEGREE_LEVELS) : DEGREE_LEVELS[i] \in edu
    THEN <<DEGREE_LEVELS[CHOOSE i \in 1..Len(DEGREE_LEVELS) :
                /\ DEGREE_LEVELS[i] \in edu
                /\ \A j \in 1..(i - 1) : DEGREE_LEVELS[j] \notin edu]>>
    ELSE <<>>

----------------------------------------------------------------------------
(* Strings of the filter request *)

\* s.strip().lower() on the strings the requests are built from
StripLower(s) ==
    CASE s = "Python" -> "python"
      [] s = " SQL " -> "sql"
      [] s = "Docker" -> "docker"
      [] s = "AWS" -> "aws"
      [] s = "Git" -> "git"
      [] s = "Leadership" -> "leadership"
      [] s = "Diploma" -> "diploma"
      [] s = " MASTER " -> "master"
      [] s = "  " -> ""
      [] OTHER -> s

\* [x.strip().lower() for x in xs if x and x.strip()]
RECURSIVE Normalize(_)
Normalize(xs) ==
    IF xs = <<>> THEN <<>>
    ELSE (IF StripLower(Head(xs)) # "" THEN <<StripLower(Head(xs))>> ELSE <<>>)
         \o Normalize(Tail(xs))

\* Python's `a in b` on strings: a is a substring of b
Substring(a, b) == a = b \/ (a = "sql" /\ b = "nosql")

\* `s in text_low`: the text is the set of lower-cased words it contains
InText(s, words) == \E w \in words : Substring(s, w)

\* SKILLS, lower-cased (the entries the texts of the model can contain)
SKILLS == <<"python", "sql", "nosql", "aws", "docker", "git">>

\* [s for s in SKILLS if s.lower() in low_text], lower-cased
detected_skills(words) == {SKILLS[i] : i \in {j \in 1..Len(SKILLS) : InText(SKILLS[j], words)}}

\* [x for x in xs if P(x)] for a set-valued P
RECURSIVE Filter(_, _, _)
Filter(xs, keep, sense) ==
    IF xs = <<>> THEN <<>>
    ELSE (IF (Head(xs) \in keep) = sense THEN <<Head(xs)>> ELSE <<>>)
         \o Filter(Tail(xs), keep, sense)

SeqSet(xs) == {xs[i] : i \in 1..Len(xs)}

----------------------------------------------------------------------------
(* apply_filters_and_scoring: one pass of the loop body *)

\* skill_percent / keyword_percent as a fraction <<num, den>> of percent
Percent(matched, required) ==
    IF required # <<>> THEN <<100 * Len(matched), Len(required)>> ELSE <<100, 1>>

ExpPercent_uncapped(years, min_experience) ==
    IF min_experience = <<>> \/ min_experience = <<0>> THEN 10000
    ELSE LET m == min_experience[1]
         IN IF m > 0 THEN Round(100 * years, m) ELSE Round(0 - 100 * years, 0 - m)

\* exp_percent in hundredths: 100.0 if not req.min_experience else
\* round(min(100.0, (years / req.min_experience) * 100.0), 2)
ExpPercent(years, min_experience) ==
    IF min_experience = <<>> \/ min_experience = <<0>> THEN 10000
    ELSE LET m == min_experience[1]
         IN IF m > 0
            THEN (IF years >= 100 * m THEN 10000 ELSE Round(100 * years, m))
            ELSE Round(0 - 100 * years, 0 - m)

EduReject_or_equal(req_edu, found_degree) ==
    /\ req_edu # ""
    /\ \/ found_degree = <<>>
       \/ IF req_edu \in SeqSet(DEGREE_LEVELS)
          THEN DegreeIndex(found_degree[1]) <= DegreeIndex(req_edu)
          ELSE TRUE

\* the education branch: TRUE when edu_reject is set.  The conditional
\* expression is the right operand of `or`; its else branch is -1, which is
\* truthy.
EduReject(req_edu, found_degree) ==
    /\ req_edu # ""
    /\ \/ found_degree = <<>>
       \/ IF req_edu \in SeqSet(DEGREE_LEVELS)
          THEN DegreeIndex(found_degree[1]) < DegreeIndex(req_edu)
          ELSE TRUE

\* the weighted score as a fraction <<num, den>>: sp and kp are fractions of
\* percent, ep is in hundredths of percent, edp in percent
WeightedScore(sp, ep, edp, kp) ==
    << 5500 * sp[1] * kp[2] + (25 * ep + 1000 * edp) * sp[2] * kp[2] + 1000 * kp[1] * sp[2],
       10000 * sp[2] * kp[2] >>

\* score >= float(req.min_score or 0.0), min_score in hundredths
ScoreAtLeast(score, min_score) ==
    LET ms == IF min_score = <<>> THEN 0 ELSE min_score[1]
    IN 100 * score[1] >= ms * score[2]

Passed_ignoring_reasons(mode, reject_reasons, score, min_score) ==
    ScoreAtLeast(score, min_score)

\* passed, lines 345-349
Passed(mode, reject_reasons, score, min_score) ==
    IF mode = "strict"
    THEN reject_reasons = <<>> /\ ScoreAtLeast(score, min_score)
    ELSE ScoreAtLeast(score, min_score)

\* the candidate_result built for the stored resume r
ScoreCandidate(r, req) ==
    LET detected_low == r.skills_detected
        req_skills == Normalize(req.skills)
        matchedSet == {s \in SeqSet(req_skills) : InText(s, r.full_text) \/ s \in detected_low}
        matched_skills == Filter(req_skills, matchedSet, TRUE)
        missing_skills == Filter(req_skills, SeqSet(matched_skills), FALSE)
        skill_percent == Percent(matched_skills, req_skills)
        years == r.total_experience_years
        exp_percent == ExpPercent(years, req.min_experience)
        req_edu == IF req.education = <<>> THEN "" ELSE StripLower(req.education[1])
        found_degree == detect_degree_level(r.education)
        edu_reject == EduReject(req_edu, found_degree)
        edu_percent == IF edu_reject THEN 0 ELSE 100
        req_keywords == Normalize(req.keywords)
        kwSet == {k \in SeqSet(req_keywords) : InText(k, r.full_text)}
        matched_keywords == Filter(req_keywords, kwSet, TRUE)
        missing_keywords == Filter(req_keywords, SeqSet(matched_keywords), FALSE)
        keyword_percent == Percent(matched_keywords, req_keywords)
        reject_reasons ==
            (IF missing_skills # <<>> THEN <<"skills">> ELSE <<>>)
            \o (IF req.min_experience # <<>> /\ years < 100 * req.min_experience[1]
                THEN <<"experience">> ELSE <<>>)
            \o (IF edu_reject THEN <<"education">> ELSE <<>>)
            \o (IF missing_keywords # <<>> THEN <<"keywords">> ELSE <<>>)
        score == WeightedScore(skill_percent, exp_percent, edu_percent, keyword_percent)
    IN [ id |-> r.id,
         skills_matched |-> matched_skills,
         skills_missing |-> missing_skills,
         total_experience_years |-> years,
         education_found_level |-> found_degree,
         keywords_matched |-> matched_keywords,
         keywords_missing |-> missing_keywords,
         score |-> Round(100 * score[1], score[2]),
         passed |-> Passed(req.mode, reject_reasons, score, req.min_score),
         reject_reasons |-> reject_reasons,
         mode_used |-> req.mode,
         weights |-> [ skills |-> Round(100 * skill_percent[1], skill_percent[2]),
                       experience |-> exp_percent,
                       education |-> 100 * edu_percent,
                       keywords |-> Round(100 * keyword_percent[1], keyword_percent[2]) ],
         raw_score |-> score ]

\* candidates_out.sort(key=lambda x: x["score"], reverse=True): stable,
\* descending
RECURSIVE InsertByScore(_, _)
InsertByScore(sorted, c) ==
    IF sorted = <<>> THEN <<c>>
    ELSE IF c.score > Head(sorted).score THEN <<c>> \o sorted
    ELSE <<Head(sorted)>> \o InsertByScore(Tail(sorted), c)

RECURSIVE SortByScore(_)
SortByScore(cs) ==
    IF cs = <<>> THEN <<>>
    ELSE InsertByScore(SortByScore(SubSeq(cs, 1, Len(cs) - 1)), cs[Len(cs)])

\* list(parsed_resumes.keys()): insertion order, which is the order of the ids
RECURSIVE KeysFrom(_, _)
KeysFrom(store, i) ==
    IF \A k \in DOMAIN store : k < i THEN <<>>
    ELSE (IF i \in DOMAIN store THEN <<i>> ELSE <<>>) \o KeysFrom(store, i + 1)

\* the loop over ids_to_process
RECURSIVE ScoreAll(_, _, _)
ScoreAll(store, ids, req) ==
    IF ids = <<>> THEN <<>>
    ELSE (IF Head(ids) \in DOMAIN store
          THEN <<ScoreCandidate(store[Head(ids)], req)>> ELSE <<>>)
         \o ScoreAll(store, Tail(ids), req)

apply_filters_and_scoring_all_keys(store, req, candidate_ids) ==
    IF DOMAIN store = {} THEN <<>>
    ELSE SortByScore(ScoreAll(store, KeysFrom(store, 1), req))

\* apply_filters_and_scoring(req, candidate_ids); candidate_ids <<>> is None
\* or the empty list
apply_filters_and_scoring(store, req, candidate_ids) ==
    IF DOMAIN store = {} THEN <<>>
    ELSE LET ids_to_process == IF candidate_ids # <<>> THEN candidate_ids
                                ELSE KeysFrom(store, 1)
         IN SortByScore(ScoreAll(store, ids_to_process, req))

----------------------------------------------------------------------------
(* Inputs *)

\* the most ids upload_resumes hands out
MaxUploads == 2

\* the longest text given to estimate_experience_years
MaxTextLen == 5

\* the longest list given to merge_ranges, and its dates k * DayStep, k <= MaxDay
MaxRanges == 3

MaxDay == 3

DayStep == 200

\* the uploaded PDFs: the date part of the text as tokens, the lower-cased
\* words of the text, the degree levels named in its education sentences
ResumeFiles ==
    << [ tokens |-> <<"2018", "-", "2022">>,
         words |-> {"python", "sql", "docker", "aws", "leadership"},
         edu |-> {"bachelor"} ],
       [ tokens |-> <<"experience">>,
         words |-> {"nosql"},
         edu |-> {} ],
       [ tokens |-> <<"Feb", "2021", "-", "Present">>,
         words |-> {"python", "nosql", "leadership", "teamwork"},
         edu |-> {"master", "phd"} ],
       [ tokens |-> <<>>,
         words |-> {},
         edu |-> {"diploma", "bachelor"} ] >>

SkillLists ==
    { <<>>, <<"  ">>, <<"Python", " SQL ", "Docker">>,
      <<"Python", " SQL ", "Docker", "AWS", "Git">> }

KeywordLists == { <<>>, <<"Leadership">>, <<"Leadership", "teamwork">> }

MinExperiences == { <<>>, <<0>>, <<3>>, <<7>>, <<0 - 2>> }

EducationInputs ==
    { <<>>, <<"  ">>, <<"highschool">>, <<"Diploma">>, <<"bachelor">>,
      <<" MASTER ">>, <<"phd">>, <<"mba">> }

MinScores == { <<>>, <<8167>> }

Modes == {"strict", "ranking"}

\* the bodies of POST /filter/
FilterRequests ==
    [ skills : SkillLists, min_experience : MinExperiences, education : EducationInputs,
      keywords : KeywordLists, min_score : MinScores, mode : Modes ]

\* the filter fields of the bodies of POST /compare/
CompareRequests ==
    [ skills : {<<"Python", " SQL ", "Docker">>}, min_experience : {<<>>, <<3>>},
      education : {<<>>}, keywords : {<<>>, <<"Leadership">>},
      min_score : {<<>>}, mode : Modes ]

\* the ids of the bodies of POST /compare/; MaxUploads + 1 is never stored
CompareIds ==
    UNION { [1..n -> 1..(MaxUploads + 1)] : n \in 0..3 }

\* datetime.now(): the day the server handles its requests on, and the days
\* estimate_experience_years is tried on
Today == datetime(2024, 1, 4)[1]

NowDays == { Today, datetime(2019, 6, 15)[1] }

NoRequest ==
    [ skills |-> <<>>, min_experience |-> <<>>, education |-> <<>>,
      keywords |-> <<>>, min_score |-> <<>>, mode |-> "strict" ]

Idle == [ kind |-> "idle", status |-> 200, req |-> NoRequest, ids |-> <<>>, candidates |-> <<>> ]

----------------------------------------------------------------------------
(* The HTTP handlers *)

\* parse_pdf_file, with the id upload_resumes adds
parse_pdf_file(file, id, today) ==
    [ id |-> id,
      skills_detected |-> detected_skills(file.words),
      education |-> file.edu,
      total_experience_years |-> estimate_experience_years(file.tokens, today),
      full_text |-> file.words ]

\* POST /upload/ with one PDF
upload_resumes(f) ==
    /\ response.kind = "idle"
    /\ next_id < MaxUploads
    /\ next_id' = next_id + 1
    /\ parsed_resumes' =
         [ k \in DOMAIN parsed_resumes \cup {next_id + 1} |->
             IF k = next_id + 1 THEN parse_pdf_file(ResumeFiles[f], k, now)
             ELSE parsed_resumes[k] ]
    /\ response' = [Idle EXCEPT !.kind = "upload"]
    /\ UNCHANGED <<now, text, est, ranges, merged>>

\* POST /upload/ with a file whose name does not end in .pdf
upload_rejected ==
    /\ response.kind = "idle"
    /\ response' = [Idle EXCEPT !.kind = "upload", !.status = 400]
    /\ UNCHANGED <<parsed_resumes, next_id, now, text, est, ranges, merged>>

\* POST /filter/
filter_all(req) ==
    /\ response.kind = "idle"
    /\ response' = [Idle EXCEPT !.kind = "filter", !.req = req,
                      !.candidates = apply_filters_and_scoring(parsed_resumes, req, <<>>)]
    /\ UNCHANGED <<parsed_resumes, next_id, now, text, est, ranges, merged>>

\* POST /compare/
compare_candidates(req, ids) ==
    /\ response.kind = "idle"
    /\ LET candidates_out == apply_filters_and_scoring(parsed_resumes, req, ids)
       IN response' =
            IF Len(ids) < 2 \/ Len(candidates_out) < 2
            THEN [Idle EXCEPT !.kind = "compare", !.status = 400, !.req = req, !.ids = ids]
            ELSE [Idle EXCEPT !.kind = "compare", !.req = req, !.ids = ids,
                    !.candidates = candidates_out]
    /\ UNCHANGED <<parsed_resumes, next_id, now, text, est, ranges, merged>>

\* POST /clear
clear_all ==
    /\ response.kind = "idle"
    /\ parsed_resumes' = <<>>
    /\ response' = [Idle EXCEPT !.kind = "clear"]
    /\ UNCHANGED <<next_id, now, text, est, ranges, merged>>

\* the client reads the response
Respond ==
    /\ response.kind # "idle"
    /\ response' = Idle
    /\ UNCHANGED <<parsed_resumes, next_id, now, text, est, ranges, merged>>

Init ==
    /\ parsed_resumes = <<>>
    /\ next_id = 0
    /\ response = Idle
    /\ now = Today
    /\ text = <<>>
    /\ est = <<>>
    /\ ranges = <<>>
    /\ merged = <<>>

Next ==
    \/ \E f \in 1..Len(ResumeFiles) : upload_resumes(f)
    \/ upload_rejected
    \/ \E req \in FilterRequests : filter_all(req)
    \/ \E req \in CompareRequests, ids \in CompareIds : compare_candidates(req, ids)
    \/ clear_all
    \/ Respond

Spec == Init /\ [][Next]_vars

----------------------------------------------------------------------------
(* estimate_experience_years on its own *)

TextAlphabet == {"Feb", "Foo", "Present", "experience", "2018", "2021", "0000", "-", "."}

Texts == UNION { [1..n -> TextAlphabet] : n \in 0..MaxTextLen }

InitEstimate ==
    /\ parsed_resumes = <<>>
    /\ next_id = 0
    /\ response = Idle
    /\ now \in NowDays
    /\ text \in Texts
    /\ est = <<>>
    /\ ranges = <<>>
    /\ merged = <<>>

Estimate ==
    /\ est = <<>>
    /\ est' = <<estimate_experience_years(text, now)>>
    /\ UNCHANGED <<parsed_resumes, next_id, response, now, text, ranges, merged>>

NextEstimate == Estimate

SpecEstimate == InitEstimate /\ [][NextEstimate]_vars

----------------------------------------------------------------------------
(* merge_ranges on its own *)

Dates == { k * DayStep : k \in 0..MaxDay }

Intervals == { r \in Dates \X Dates : r[1] <= r[2] }

RangeLists == UNION { [1..n -> Intervals] : n \in 0..MaxRanges }

InitMerge ==
    /\ parsed_resumes = <<>>
    /\ next_id = 0
    /\ response = Idle
    /\ now = Today
    /\ text = <<>>
    /\ est = <<>>
    /\ ranges \in RangeLists
    /\ merged = <<>>

Merge ==
    /\ merged = <<>>
    /\ merged' = <<merge_ranges(ranges)>>
    /\ UNCHANGED <<parsed_resumes, next_id, response, now, text, est, ranges>>

NextMerge == Merge

SpecMerge == InitMerge /\ [][NextMerge]_vars

----------------------------------------------------------------------------
(* Properties of the scoring, checked under Spec *)

\* the results of the outstanding response, with the request they answer
Results == { response.candidates[i] : i \in 1..Len(response.candidates) }

MinScoreOf(req) == IF req.min_score = <<>> THEN 0 ELSE req.min_score[1]

\* C1: in strict mode a result with at least one rejection reason has
\* passed = false whatever its score and min_score; passed is true exactly
\* when there is no reason and the score is at least min_score.
C1_StrictReasonsBlockPassing ==
    \A c \in Results :
        c.mode_used = "strict" =>
            /\ (c.reject_reasons # <<>> => ~c.passed)
            /\ (c.passed <=> (c.reject_reasons = <<>>
                              /\ 100 * c.raw_score[1] >= MinScoreOf(response.req) * c.raw_score[2]))

\* a strict result whose score reaches min_score and that is still not passed,
\* because it has a rejection reason
C1_Witness ==
    \E c \in Results :
        /\ c.mode_used = "strict"
        /\ c.reject_reasons # <<>>
        /\ response.req.min_score = <<8167>>
        /\ c.score > 8167
        /\ ~c.passed

\* C2 (as claimed): in ranking mode passed is true exactly when the reported
\* 2-decimal score is at least min_score.
C2_RankingPassedFromReportedScore ==
    \A c \in Results :
        c.mode_used = "ranking" => (c.passed <=> c.score >= MinScoreOf(response.req))

\* the composite score the claim describes, in hundredths, from the inputs of
\* one result: expRounded says whether expPct is rounded to 2 decimals before
\* it is weighted
ClaimedScore(c, req, expRounded) ==
    LET nSkills == Len(c.skills_matched) + Len(c.skills_missing)
        nKeys == Len(c.keywords_matched) + Len(c.keywords_missing)
        y == c.total_experience_years
        m == IF req.min_experience = <<>> THEN 0 ELSE req.min_experience[1]
        \* the four percentages as fractions <<num, den>> of a percent
        skillPct == IF nSkills = 0 THEN <<100, 1>> ELSE <<100 * Len(c.skills_matched), nSkills>>
        keyPct == IF nKeys = 0 THEN <<100, 1>> ELSE <<100 * Len(c.keywords_matched), nKeys>>
        expExact == IF m = 0 \/ y >= 100 * m THEN <<100, 1>> ELSE <<y, m>>
        expPct == IF expRounded THEN <<Round(100 * expExact[1], expExact[2]), 100>> ELSE expExact
        eduPct == IF "education" \in SeqSet(c.reject_reasons) THEN 0 ELSE 100
        den == 100 * skillPct[2] * expPct[2] * keyPct[2]
        num == 55 * skillPct[1] * expPct[2] * keyPct[2]
               + 25 * expPct[1] * skillPct[2] * keyPct[2]
               + 10 * eduPct * skillPct[2] * expPct[2] * keyPct[2]
               + 10 * keyPct[1] * skillPct[2] * expPct[2]
    IN Round(100 * num, den)

NonNegativeMinExperience(req) == req.min_experience = <<>> \/ req.min_experience[1] >= 0

PercentagesInRange(c) ==
    /\ c.weights.skills \in 0..10000
    /\ c.weights.experience \in 0..10000
    /\ c.weights.education \in 0..10000
    /\ c.weights.keywords \in 0..10000
    /\ c.score \in 0..10000
    /\ (c.skills_matched = <<>> /\ c.skills_missing = <<>> => c.weights.skills = 10000)
    /\ (c.keywords_matched = <<>> /\ c.keywords_missing = <<>> => c.weights.keywords = 10000)

\* C3 (as claimed): with a non-negative min_experience the reported score is
\* 0.55*skillPct + 0.25*expPct + 0.10*eduPct + 0.10*keywordPct rounded to 2
\* decimals with expPct = min(100, years/min*100), and every percentage and
\* the score lie in [0,100].
C3_ScoreFromUnroundedExpPct ==
    \A c \in Results :
        NonNegativeMinExperience(response.req) =>
            /\ c.score = ClaimedScore(c, response.req, FALSE)
            /\ PercentagesInRange(c)

\* C3 (amended): the same with expPct rounded to 2 decimals before it is
\* weighted (and 100 when min_experience is absent or 0); 4 of 5 skills,
\* min_experience 3 with 5 years, no education requirement and 1 of 2
\* keywords give 84.00.
C3_ScoreFromRoundedExpPct ==
    \A c \in Results :
        NonNegativeMinExperience(response.req) =>
            /\ c.score = ClaimedScore(c, response.req, TRUE)
            /\ PercentagesInRange(c)
            /\ (response.req.min_experience \in {<<>>, <<0>>} => c.weights.experience = 10000)
            /\ (/\ Len(c.skills_matched) = 4 /\ Len(c.skills_missing) = 1
                /\ response.req.min_experience = <<3>> /\ c.total_experience_years = 500
                /\ response.req.education = <<>>
                /\ Len(c.keywords_matched) = 1 /\ Len(c.keywords_missing) = 1
                => c.score = 8400)

\* the worked example: 4 of 5 skills, 5 years against 3, no education
\* requirement, 1 of 2 keywords, scored 84.00
C3_Witness ==
    \E c \in Results :
        /\ Len(c.skills_matched) = 4 /\ Len(c.skills_missing) = 1
        /\ response.req.min_experience = <<3>> /\ c.total_experience_years = 500
        /\ response.req.education = <<>>
        /\ Len(c.keywords_matched) = 1 /\ Len(c.keywords_missing) = 1
        /\ c.weights.skills = 8000 /\ c.weights.keywords = 5000
        /\ c.score = 8400

\* the rank of a degree level in highschool < diploma < bachelor < master < phd
Rank(level) ==
    CASE level = "highschool" -> 0
      [] level = "diploma" -> 1
      [] level = "bachelor" -> 2
      [] level = "master" -> 3
      [] level = "phd" -> 4

Canonical == {"highschool", "diploma", "bachelor", "master", "phd"}

RejectedOnEducation(c) ==
    c.weights.education = 0 /\ "education" \in SeqSet(c.reject_reasons)

AcceptedOnEducation(c) ==
    c.weights.education = 10000 /\ "education" \notin SeqSet(c.reject_reasons)

\* C10: with a canonical required level (after strip and lower-casing) a
\* result is rejected on education exactly when no level was detected or the
\* detected level ranks strictly below the required one, and is otherwise
\* accepted on education; with a non-empty required token that is not
\* canonical every result is rejected on education.
C10_EducationOrdering ==
    \A c \in Results :
        response.req.education # <<>> =>
            LET tok == StripLower(response.req.education[1])
                found == c.education_found_level
            IN /\ tok \in Canonical =>
                    /\ RejectedOnEducation(c) <=> (found = <<>> \/ Rank(found[1]) < Rank(tok))
                    /\ RejectedOnEducation(c) \/ AcceptedOnEducation(c)
               /\ (tok \in Canonical /\ found = <<"bachelor">> =>
                    (RejectedOnEducation(c) <=> tok \in {"master", "phd"}))
               /\ (tok # "" /\ tok \notin Canonical => RejectedOnEducation(c))

\* a detected bachelor measured against a required bachelor (accepted) next to
\* a detected diploma (rejected)
C10_Witness ==
    /\ response.req.education = <<"bachelor">>
    /\ \E c \in Results : c.education_found_level = <<"bachelor">> /\ AcceptedOnEducation(c)
    /\ \E c \in Results : c.education_found_level = <<"diploma">> /\ RejectedOnEducation(c)

----------------------------------------------------------------------------
(* Properties of estimate_experience_years, checked under SpecEstimate *)

\* the number of sentences of the text that contain "experience"
SentenceCount == ExperienceSentences(text, 1, FALSE)

\* the full 4-digit years of the text of the form 19xx or 20xx
FullYears == { YearVal(text[i]) : i \in { j \in 1..Len(text) :
                   text[j] \in YearTokens /\ YearVal(text[j]) \div 100 \in {19, 20} } }

NumberOfYears == Cardinality({ j \in 1..Len(text) :
                   text[j] \in YearTokens /\ YearVal(text[j]) \div 100 \in {19, 20} })

\* the text with one more "experience" sentence or stand-alone year, before
\* or after it
Padded == { <<tok>> \o text : tok \in {"experience", "2018", "2021"} }
          \cup { text \o <<".", tok>> : tok \in {"experience", "2018", "2021"} }

\* C4: when the text has a valid dated range the estimate is the capped,
\* rounded total of the merged ranges, and stays the same when "experience"
\* sentences or stand-alone years are added; the sentence count is returned
\* only when there is no valid range, the year difference or 0.0 only when
\* there is neither a range nor an "experience" sentence.
C4_RangesTakePriority ==
    est # <<>> =>
        LET rs == ExtractRanges(text, now)
        IN /\ rs # <<>> =>
                /\ est[1] = CappedYears(TotalDays(merge_ranges(rs)))
                /\ \A t2 \in Padded :
                       ExtractRanges(t2, now) = rs => estimate_experience_years(t2, now) = est[1]
           /\ (rs = <<>> /\ SentenceCount > 0 => est[1] = 100 * Min(SentenceCount, 40))
           /\ (rs = <<>> /\ SentenceCount = 0 =>
                 est[1] = IF Len(years_found(text)) >= 2
                          THEN 100 * Min(SeqMax(years_found(text)) - SeqMin(years_found(text)), 50)
                          ELSE 0)

\* a text with a valid range, an "experience" sentence and two years, whose
\* estimate is the merged total and not the sentence count
C4_Witness ==
    /\ est # <<>>
    /\ ExtractRanges(text, now) # <<>>
    /\ SentenceCount > 0
    /\ NumberOfYears >= 2
    /\ est[1] = 400
    /\ est[1] # 100 * SentenceCount

\* C5 (as claimed): a text with no dated range, no "experience" sentence and
\* two or more years 19xx/20xx is estimated at min(maxYear - minYear, 50).
C5_YearDifferenceFallback ==
    (est # <<>> /\ ExtractRanges(text, now) = <<>> /\ SentenceCount = 0 /\ NumberOfYears >= 2) =>
        LET maxYear == CHOOSE y \in FullYears : \A z \in FullYears : z <= y
            minYear == CHOOSE y \in FullYears : \A z \in FullYears : z >= y
        IN est[1] = 100 * Min(maxYear - minYear, 50)

\* the text is exactly "<w> <y> - Present"
IsOpenMonthRange == Len(text) = 4 /\ MonthMatchLen(text, 1) = 4

\* C6 (as claimed): a text that is one open-ended month-year range
\* "<Month> <Year> - Present" with a recognized month is estimated at the
\* time from the 1st of that month to now, the only merged interval:
\* "Feb 2021 - Present" on 4 January 2024 gives about 2.92.
C6_OpenEndedMonthRange ==
    (est # <<>> /\ IsOpenMonthRange /\ MONTH_MAP(text[1]) # 0 /\ YearVal(text[2]) >= 1) =>
        LET start == datetime(YearVal(text[2]), MONTH_MAP(text[1]), 1)[1]
        IN IF start <= now
           THEN /\ merge_ranges(ExtractRanges(text, now)) = << <<start, now>> >>
                /\ est[1] = CappedYears(now - start)
           ELSE ExtractRanges(text, now) = <<>>

\* the text is exactly one match of the month-year pattern
IsMonthRange == MonthMatchLen(text, 1) \in {4, 5} /\ Len(text) = MonthMatchLen(text, 1)

\* C7 (as claimed): a month-year range match whose start or end word is not
\* a month name adds no interval to the ranges that are merged.
C7_UnknownMonthDiscarded ==
    (est # <<>> /\ IsMonthRange
       /\ (MONTH_MAP(text[1]) = 0 \/ (Len(text) = 5 /\ MONTH_MAP(text[4]) = 0))) =>
        MonthRanges(text, 1, now) = <<>>

----------------------------------------------------------------------------
(* Properties of merge_ranges, checked under SpecMerge *)

\* C8: merging a merged list again returns the same list.
C8_MergeIdempotent ==
    merged # <<>> => merge_ranges(merged[1]) = merged[1]

\* a merge that joined ranges and still left more than one
C8_Witness ==
    /\ merged # <<>>
    /\ Len(merged[1]) = 2
    /\ Len(ranges) = 3

\* the dates covered by a list of ranges; the dates of the inputs are
\* DayStep apart, so the days in between tell a gap from a covered stretch
Covered(rs) ==
    { d \in 0..(MaxDay * DayStep) : \E i \in 1..Len(rs) : rs[i][1] <= d /\ d <= rs[i][2] }

\* C9: the merged list is sorted by start, every range starts strictly after
\* the one before it ends, and it covers exactly the dates the input covers;
\* two overlapping ranges, in either order, become the one range from the
\* earlier start to the later end, whose duration is that of the span and
\* not the sum of the two durations.
C9_MergedDisjointSortedSameCover ==
    merged # <<>> =>
        LET out == merged[1]
        IN /\ \A i \in 1..Len(out) : out[i][1] <= out[i][2]
           /\ \A i \in 1..(Len(out) - 1) : out[i][2] < out[i + 1][1]
           /\ Covered(out) = Covered(ranges)
           /\ (Len(ranges) = 2 /\ ranges[1][1] <= ranges[2][2] /\ ranges[2][1] <= ranges[1][2]) =>
                LET lo == Min(ranges[1][1], ranges[2][1])
                    hi == Max(ranges[1][2], ranges[2][2])
                    overlap == Min(ranges[1][2], ranges[2][2]) - Max(ranges[1][1], ranges[2][1])
                IN /\ out = << <<lo, hi>> >>
                   /\ TotalDays(out) = hi - lo
                   /\ TotalDays(out) = TotalDays(ranges) - overlap
                   /\ CappedYears(TotalDays(out)) = CappedYears(hi - lo)

\* two ranges given later-start first that overlap for a while and are merged
\* into one range shorter than the sum of the two
C9_Witness ==
    /\ merged # <<>>
    /\ Len(ranges) = 2
    /\ ranges[2][1] < ranges[1][1]
    /\ ranges[1][1] < ranges[2][2]
    /\ ranges[2][2] < ranges[1][2]
    /\ Len(merged[1]) = 1
    /\ TotalDays(merged[1]) < TotalDays(ranges)

----------------------------------------------------------------------------
(* Properties of the batch scoring, checked under Spec *)

\* the ids of a list that are in the store, in the order of the list
RECURSIVE StoredIds(_)
StoredIds(ids) ==
    IF ids = <<>> THEN <<>>
    ELSE (IF Head(ids) \in DOMAIN parsed_resumes THEN <<Head(ids)>> ELSE <<>>)
         \o StoredIds(Tail(ids))

DescendingByScore(out) == \A i \in 1..(Len(out) - 1) : out[i].score >= out[i + 1].score

\* C11: whatever uploads and clears made the store, for the list of ids that
\* compare_candidates passes to apply_filters_and_scoring every result has
\* an id that is in the list and in the store, every listed id that is in
\* the store has its results (the others are skipped), and the results are
\* in descending order of score; the results of filter_all, which passes no
\* list, are the stored resumes in descending order of score.
C11_ResultsFromListedStoredIds ==
    /\ (response.kind = "compare" /\ Len(response.ids) >= 2) =>
          LET out == apply_filters_and_scoring(parsed_resumes, response.req, response.ids)
          IN /\ \A i \in 1..Len(out) :
                    out[i].id \in SeqSet(response.ids) /\ out[i].id \in DOMAIN parsed_resumes
             /\ Len(out) = Len(StoredIds(response.ids))
             /\ { out[i].id : i \in 1..Len(out) } = SeqSet(StoredIds(response.ids))
             /\ DescendingByScore(out)
             /\ (response.status = 200 => response.candidates = out)
             /\ (response.status = 400 <=> Len(out) < 2)
    /\ response.kind = "filter" =>
          /\ { c.id : c \in Results } = DOMAIN parsed_resumes
          /\ Len(response.candidates) = Cardinality(DOMAIN parsed_resumes)
          /\ DescendingByScore(response.candidates)

\* a comparison of three ids, the first of them never stored, whose two
\* results come back with the later id first because it scored higher
C11_Witness ==
    /\ response.kind = "compare"
    /\ response.status = 200
    /\ Len(response.ids) = 3
    /\ response.ids[1] \notin DOMAIN parsed_resumes
    /\ response.ids[2] < response.ids[3]
    /\ Len(response.candidates) = 2
    /\ response.candidates[1].id = response.ids[3]
    /\ response.candidates[1].score > response.candidates[2].score

====
